---- MODULE Spec2Model ----
(***************************************************************************)
(* A model of textacy/spacy_utils.py: small utility functions that take    *)
(* spaCy tokens, spans and documents as input.                             *)
(*                                                                         *)
(* A document is a record [is_tagged, is_parsed, toks]; toks is a function *)
(* from the token indexes 0..n-1 to token records [pos, dep, head, text,   *)
(* lower, lemma]; a token is named by its index i in its document, a span  *)
(* by [start, end) as in spaCy.  A string is a sequence of one-character   *)
(* strings.                                                                *)
(*                                                                         *)
(* A behaviour is one call: the initial state holds the function called    *)
(* and its arguments, drawn from bounded sets, and the actions run the     *)
(* function and record the value returned or the exception raised.  The    *)
(* two loops that depend on what earlier iterations did (the conjunct      *)
(* expansion, which appends to the list it walks, and merge_spans, which   *)
(* survives some failures) advance one iteration per step.                 *)
(***************************************************************************)
EXTENDS Integers, Sequences, FiniteSets

VARIABLES
    pc,         \* "call" | "expanding" | "merging" | "done"
    op,         \* the function called
    doc,        \* the document the arguments belong to
    args,       \* the arguments of the call
    result,     \* [kind |-> "return", value |-> v] or [kind |-> "raise", exc |-> e]
    subjs,      \* the list that the conjunct expansion extends while it walks it
    cursor,     \* the position of the running loop in its list (1-based)
    attempted,  \* merge_spans: the spans whose merge was called, in order
    merged,     \* merge_spans: the spans merged into the document, in order
    log         \* merge_spans: what logger.error was given, in order

vars == <<pc, op, doc, args, result, subjs, cursor, attempted, merged, log>>

(***************************************************************************)
(* Bounds of the model.                                                    *)
(***************************************************************************)
\* tokens of a parsed sentence
MaxTokens == 4
\* tokens of a document whose texts are drawn
MaxSpanLen == 2
\* spans given to merge_spans
MaxSpans == 3

(***************************************************************************)
(* spacy.symbols: parts of speech and dependency labels.                   *)
(***************************************************************************)
NOUN == "NOUN"
ADJ == "ADJ"
PROPN == "PROPN"
PRON == "PRON"
VERB == "VERB"
nsubj == "nsubj"
nsubjpass == "nsubjpass"
prep == "prep"
agent == "agent"
attr == "attr"
pobj == "pobj"
dobj == "dobj"
xcomp == "xcomp"
conj == "conj"

\* textacy.constants.AUX_DEPS: the auxiliary and negation labels
AUX_DEPS == {"aux", "auxpass", "neg"}

None == [kind |-> "return", value |-> "None"]
Return(v) == [kind |-> "return", value |-> v]
Raise(e) == [kind |-> "raise", exc |-> e]

(***************************************************************************)
(* Sequences and sets of token indexes.                                    *)
(***************************************************************************)
Min(S) == CHOOSE x \in S : \A y \in S : x <= y

RECURSIVE Ascending(_)
Ascending(S) ==
    IF S = {} THEN <<>> ELSE <<Min(S)>> \o Ascending(S \ {Min(S)})

Reversed(s) == [k \in 1..Len(s) |-> s[Len(s) + 1 - k]]

Elems(s) == {s[k] : k \in 1..Len(s)}

\* itertools.takewhile: the items before the first one that keep, a function to
\* BOOLEAN, rejects
RECURSIVE takewhile(_, _)
takewhile(keep, s) ==
    IF s = <<>> THEN <<>>
    ELSE IF keep[Head(s)] THEN <<Head(s)>> \o takewhile(keep, Tail(s))
    ELSE <<>>

\* str.join
RECURSIVE Join(_, _)
Join(sep, strs) ==
    IF strs = <<>> THEN <<>>
    ELSE IF Len(strs) = 1 THEN strs[1]
    ELSE strs[1] \o sep \o Join(sep, Tail(strs))

(***************************************************************************)
(* Strings: upper and lower case.                                          *)
(***************************************************************************)
UpperOf == [c |-> "C", a |-> "A", t |-> "T", s |-> "S", u |-> "U"]
IsUpperChar(ch) == \E l \in DOMAIN UpperOf : UpperOf[l] = ch
LowerChar(ch) ==
    IF IsUpperChar(ch) THEN CHOOSE l \in DOMAIN UpperOf : UpperOf[l] = ch ELSE ch

\* str.lower
Lower(str) == [k \in 1..Len(str) |-> LowerChar(str[k])]

\* textacy.text_utils.is_acronym: an all-uppercase short token
MaxAcronymLen == 10
is_acronym(str) ==
    /\ str # <<>>
    /\ Len(str) <= MaxAcronymLen
    /\ \A k \in 1..Len(str) : IsUpperChar(str[k])

(***************************************************************************)
(* The dependency tree: every token has one head, the root is its own      *)
(* head, and every token reaches the root.                                 *)
(***************************************************************************)
Indexes(d) == DOMAIN d.toks

RECURSIVE Ancestor(_, _, _)
Ancestor(h, t, k) == IF k = 0 THEN t ELSE Ancestor(h, h[t], k - 1)

IsTree(h) ==
    /\ Cardinality({t \in DOMAIN h : h[t] = t}) = 1
    /\ \A t \in DOMAIN h :
          h[Ancestor(h, t, Cardinality(DOMAIN h))] = Ancestor(h, t, Cardinality(DOMAIN h))

Trees(n) == {h \in [0..(n - 1) -> 0..(n - 1)] : IsTree(h)}

TreesUpTo == UNION {Trees(n) : n \in 1..MaxTokens}

\* token.lefts, token.rights, token.children: the dependents in document order
lefts(d, t) == Ascending({c \in Indexes(d) : d.toks[c].head = t /\ c < t})
rights(d, t) == Ascending({c \in Indexes(d) : d.toks[c].head = t /\ c > t})
children(d, t) == lefts(d, t) \o rights(d, t)

(***************************************************************************)
(* Documents.                                                              *)
(***************************************************************************)
\* the surface form of token t in the documents whose texts are not drawn
Letters == <<"a", "b", "c", "d", "e", "f", "g", "h">>
Orth(t) == <<Letters[t + 1]>>

Token(pos, dep, head, text, lemma) ==
    [pos |-> pos, dep |-> dep, head |-> head,
     text |-> text, lower |-> Lower(text), lemma |-> lemma]

\* a tagged and parsed one-sentence document with heads h, labels dp (the root is
\* labeled "ROOT") and parts of speech ps
ParsedDoc(h, dp, ps) ==
    [is_tagged |-> TRUE, is_parsed |-> TRUE,
     toks |-> [t \in DOMAIN h |->
                 Token(ps[t], IF h[t] = t THEN "ROOT" ELSE dp[t], h[t], Orth(t), Orth(t))]]

\* drawn[t] for the tokens of S, def for the other tokens of D
Over(D, S, drawn, def) == [t \in D |-> IF t \in S THEN drawn[t] ELSE def]

NonRoot(h) == {t \in DOMAIN h : h[t] # t}

Idle ==
    /\ pc = "call"
    /\ result = None
    /\ subjs = <<>>
    /\ cursor = 0
    /\ attempted = <<>>
    /\ merged = <<>>
    /\ log = <<>>

(***************************************************************************)
(* _get_conjuncts, get_objects_of_verb, get_subjects_of_verb and the       *)
(* conjunct expansion.                                                     *)
(***************************************************************************)
_get_conjuncts(d, tok) ==
    SelectSeq(rights(d, tok), LAMBDA right : d.toks[right].dep = conj)

\* mutant: the left dependents are searched too
ObjectsFilterChildren(d, verb) ==
    SelectSeq(children(d, verb),
              LAMBDA tok : \/ d.toks[tok].dep = pobj
                           \/ d.toks[tok].dep = dobj
                           \/ d.toks[tok].dep = attr)

\* objs = [tok for tok in verb.rights if tok.dep == pobj or ... dobj or ... attr]
ObjectsFilter(d, verb) ==
    SelectSeq(rights(d, verb),
              LAMBDA tok : \/ d.toks[tok].dep = pobj
                           \/ d.toks[tok].dep = dobj
                           \/ d.toks[tok].dep = attr)

\* span.__iter__: the tokens of a span, in order
SpanTokens(span) == [k \in 1..(span.end - span.start) |-> span.start + k - 1]

\* mutant: adjectives are not left out
SubjectsFilterKeepsAdj(d, verb) ==
    SelectSeq(lefts(d, verb),
              LAMBDA tok : /\ (d.toks[tok].dep = nsubj \/ d.toks[tok].dep = nsubjpass)
                           /\ d.toks[tok].pos # PRON)

\* subjs = [tok for tok in verb.lefts if (subject relation) and not PRON and not ADJ]
SubjectsFilter(d, verb) ==
    SelectSeq(lefts(d, verb),
              LAMBDA tok : /\ (d.toks[tok].dep = nsubj \/ d.toks[tok].dep = nsubjpass)
                           /\ d.toks[tok].pos # PRON
                           /\ d.toks[tok].pos # ADJ)

\* (tok for tok in sent if (verb in tok.children and tok.pos != VERB))
PointingToVerb(d, verb, sent) ==
    SelectSeq(SpanTokens(sent),
              LAMBDA tok : /\ verb \in Elems(children(d, tok))
                           /\ d.toks[tok].pos # VERB)

\* the left dependents of the verb and its head: get_subjects_of_verb reads the
\* part of speech of no other token
Tagged(h, verb) ==
    {t \in DOMAIN h : t # verb /\ ((h[t] = verb /\ t < verb) \/ h[verb] = t)}

\* the dependents of the token a function is given and the right dependents of
\* every token: the functions read the label of no other token (the lefts and
\* rights of their argument, the rights of a token found, the rights of a span)
Labeled(h, verb) == {t \in NonRoot(h) : h[t] = verb \/ t > h[t]}

\* A call of get_objects_of_verb: a sentence of up to MaxTokens tokens, one of them
\* as the verb, and the labels of the tokens of Labeled drawn from Labels; the
\* other tokens are determiners.
ObjectsCall(Labels) ==
    /\ Idle
    /\ op = "get_objects_of_verb"
    /\ \E h \in TreesUpTo :
         \E verb \in DOMAIN h :
            \E dp \in [Labeled(h, verb) -> Labels] :
                /\ doc = ParsedDoc(h, Over(DOMAIN h, Labeled(h, verb), dp, "det"),
                                   [t \in DOMAIN h |-> IF t = verb THEN VERB ELSE NOUN])
                /\ args = [verb |-> verb]

\* A call of get_subjects_of_verb: as above, with the sentence as sent.  The part
\* of speech of the tokens of Tagged is drawn from Pos, the head of the verb being
\* a noun or a verb (the function asks of it only whether it is a verb); the
\* other tokens are nouns.
SubjectsCall(Labels, Pos) ==
    /\ Idle
    /\ op = "get_subjects_of_verb"
    /\ \E h \in TreesUpTo :
         \E verb \in DOMAIN h :
            \E dp \in [Labeled(h, verb) -> Labels],
               ps \in {q \in [Tagged(h, verb) -> Pos] :
                          h[verb] # verb => q[h[verb]] \in {NOUN, VERB}} :
                /\ doc = ParsedDoc(h, Over(DOMAIN h, Labeled(h, verb), dp, "det"),
                                   [t \in DOMAIN h |->
                                       IF t = verb THEN VERB
                                       ELSE IF t \in DOMAIN ps THEN ps[t] ELSE NOUN])
                /\ args = [verb |-> verb,
                           sent |-> [start |-> 0, end |-> Cardinality(DOMAIN h)]]

InitObj == ObjectsCall({dobj, pobj, attr, conj, nsubj})

InitSubj == SubjectsCall({nsubj, nsubjpass, conj}, {NOUN, PRON, ADJ, VERB})

InitConj ==
    \/ ObjectsCall({dobj, conj})
    \/ SubjectsCall({nsubj, conj}, {NOUN, VERB})

GetObjectsOfVerb ==
    /\ pc = "call"
    /\ op = "get_objects_of_verb"
    /\ subjs' = ObjectsFilter(doc, args.verb)
    /\ cursor' = 1
    /\ pc' = "expanding"
    /\ UNCHANGED <<op, doc, args, result, attempted, merged, log>>

GetSubjectsOfVerb ==
    /\ pc = "call"
    /\ op = "get_subjects_of_verb"
    /\ subjs' = SubjectsFilter(doc, args.verb) \o PointingToVerb(doc, args.verb, args.sent)
    /\ cursor' = 1
    /\ pc' = "expanding"
    /\ UNCHANGED <<op, doc, args, result, attempted, merged, log>>

RECURSIVE ConjunctsOfAll(_, _)
ConjunctsOfAll(d, s) ==
    IF s = <<>> THEN <<>>
    ELSE _get_conjuncts(d, Head(s)) \o ConjunctsOfAll(d, Tail(s))

\* mutant: the expansion walks a copy of the list, so that what it appends is not
\* expanded in turn
ExpandSnapshot ==
    /\ pc = "expanding"
    /\ cursor <= Len(subjs)
    /\ subjs' = subjs \o ConjunctsOfAll(doc, subjs)
    /\ cursor' = Len(subjs') + 1
    /\ UNCHANGED <<pc, op, doc, args, result, attempted, merged, log>>

\* One turn of the generator (tok for subj in subjs for tok in _get_conjuncts(subj))
\* that subjs.extend consumes: extend appends each token as the generator yields
\* it, and the generator walks the same list by position, so that it also visits
\* what was appended.
ExpandStep ==
    /\ pc = "expanding"
    /\ cursor <= Len(subjs)
    /\ subjs' = subjs \o _get_conjuncts(doc, subjs[cursor])
    /\ cursor' = cursor + 1
    /\ UNCHANGED <<pc, op, doc, args, result, attempted, merged, log>>

\* the generator is exhausted: return subjs
ExpandReturn ==
    /\ pc = "expanding"
    /\ cursor > Len(subjs)
    /\ result' = Return(subjs)
    /\ pc' = "done"
    /\ UNCHANGED <<op, doc, args, subjs, cursor, attempted, merged, log>>

NextObj == GetObjectsOfVerb \/ ExpandStep \/ ExpandReturn

NextSubj == GetSubjectsOfVerb \/ ExpandStep \/ ExpandReturn

NextConj == GetSubjectsOfVerb \/ GetObjectsOfVerb \/ ExpandStep \/ ExpandReturn

SpecObj == InitObj /\ [][NextObj]_vars

SpecSubj == InitSubj /\ [][NextSubj]_vars

\* the interpreter runs a started call to its end
SpecConj ==
    /\ InitConj
    /\ [][NextConj]_vars
    /\ WF_vars(NextConj)

(***************************************************************************)
(* What the claims speak of, stated on the tree and not on the walk.       *)
(***************************************************************************)
HeadsOf(d) == [t \in Indexes(d) |-> d.toks[t].head]

\* c is a right dependent of its head, labeled conj
ConjArc(d, c) == d.toks[c].dep = conj /\ c > d.toks[c].head

\* the tokens of S and every token that a chain of ConjArc links to one of them
ConjClosure(d, S) ==
    {t \in Indexes(d) :
        \E k \in 0..Cardinality(Indexes(d)) :
            /\ Ancestor(HeadsOf(d), t, k) \in S
            /\ \A j \in 0..(k - 1) : ConjArc(d, Ancestor(HeadsOf(d), t, j))}

PositionIn(r, t) == CHOOSE k \in 1..Len(r) : r[k] = t

\* r[(n+1)..] are conjunct expansions: each is a right conj dependent of a token
\* placed before it, and they come in the order the expansion visits them
ExpansionTail(d, r, n) ==
    /\ \A k \in (n + 1)..Len(r) :
          /\ ConjArc(d, r[k])
          /\ \E j \in 1..(k - 1) : r[j] = d.toks[r[k]].head
    /\ \A j, k \in (n + 1)..Len(r) :
          j < k =>
            \/ PositionIn(r, d.toks[r[j]].head) < PositionIn(r, d.toks[r[k]].head)
            \/ d.toks[r[j]].head = d.toks[r[k]].head /\ r[j] < r[k]

\* r[1..n] are the tokens of S, each once, in document order
AscendingPrefix(r, n, S) ==
    /\ n = Cardinality(S)
    /\ Len(r) >= n
    /\ \A k \in 1..n : r[k] \in S
    /\ \A j, k \in 1..n : j < k => r[j] < r[k]

ObjectsDone == pc = "done" /\ op = "get_objects_of_verb"
SubjectsDone == pc = "done" /\ op = "get_subjects_of_verb"

DirectObjects(d, verb) ==
    {t \in Indexes(d) : /\ d.toks[t].head = verb
                        /\ t > verb
                        /\ d.toks[t].dep \in {dobj, pobj, attr}}

\* C7: get_objects_of_verb returns the right dependents of the verb labeled dobj,
\* pobj or attr, left to right, then the conjunct expansions of those objects,
\* and nothing else; no left dependent of the verb is in the result.
C7_ObjectsOfVerb ==
    ObjectsDone =>
        /\ result.kind = "return"
        /\ AscendingPrefix(result.value, Cardinality(DirectObjects(doc, args.verb)),
                           DirectObjects(doc, args.verb))
        /\ ExpansionTail(doc, result.value, Cardinality(DirectObjects(doc, args.verb)))
        /\ Elems(result.value) = ConjClosure(doc, DirectObjects(doc, args.verb))
        /\ \A k \in 1..Len(result.value) :
              ~(doc.toks[result.value[k]].head = args.verb /\ result.value[k] < args.verb)

\* the verb has a left dependent with an object label, an object and a conjunct
C7_Witness ==
    /\ ObjectsDone
    /\ \E t \in Indexes(doc) : /\ doc.toks[t].head = args.verb
                               /\ t < args.verb
                               /\ doc.toks[t].dep \in {dobj, pobj, attr}
    /\ \E k \in 1..Len(result.value) : ConjArc(doc, result.value[k])

SubjectDependents(d, verb) ==
    {t \in Indexes(d) : /\ d.toks[t].head = verb
                        /\ t < verb
                        /\ d.toks[t].dep \in {nsubj, nsubjpass}
                        /\ d.toks[t].pos \notin {PRON, ADJ}}

\* the tokens of sent, other than verbs, whose head is the verb
NonVerbDependents(d, verb, sent) ==
    {t \in sent.start..(sent.end - 1) : /\ t # verb
                                        /\ d.toks[t].head = verb
                                        /\ d.toks[t].pos # VERB}

\* the tokens of sent, other than verbs, that are the head of the verb
NonVerbHeads(d, verb, sent) ==
    {t \in sent.start..(sent.end - 1) : /\ t # verb
                                        /\ d.toks[verb].head = t
                                        /\ d.toks[t].pos # VERB}

\* r is the subject dependents in document order, then the tokens of Second in
\* document order, then conjunct expansions, and holds no other token
SubjectsShape(d, verb, r, Second) ==
    /\ AscendingPrefix(r, Cardinality(SubjectDependents(d, verb)),
                       SubjectDependents(d, verb))
    /\ Len(r) >= Cardinality(SubjectDependents(d, verb)) + Cardinality(Second)
    /\ \A k \in 1..Cardinality(Second) :
          r[Cardinality(SubjectDependents(d, verb)) + k] \in Second
    /\ \A j, k \in 1..Cardinality(Second) :
          j < k => r[Cardinality(SubjectDependents(d, verb)) + j]
                     < r[Cardinality(SubjectDependents(d, verb)) + k]
    /\ ExpansionTail(d, r, Cardinality(SubjectDependents(d, verb)) + Cardinality(Second))
    /\ Elems(r) = ConjClosure(d, SubjectDependents(d, verb) \cup Second)

\* C3 as stated: get_subjects_of_verb returns (1) the left dependents of the verb
\* labeled nsubj or nsubjpass that are neither pronoun nor adjective, (2) every
\* token of sent whose head is the verb and which is not a verb, (3) the conjunct
\* expansions, and no other token.
C3_AsStated ==
    SubjectsDone =>
        /\ result.kind = "return"
        /\ SubjectsShape(doc, args.verb, result.value,
                         NonVerbDependents(doc, args.verb, args.sent))

\* C3 amended: (2) is every token of sent that has the verb among its children
\* (the head of the verb) and which is not a verb.
C3_SubjectsOfVerb ==
    SubjectsDone =>
        /\ result.kind = "return"
        /\ SubjectsShape(doc, args.verb, result.value,
                         NonVerbHeads(doc, args.verb, args.sent))

\* all three parts are there, and the verb has a non-verb dependent that is left out
C3_Witness ==
    /\ SubjectsDone
    /\ SubjectDependents(doc, args.verb) # {}
    /\ NonVerbHeads(doc, args.verb, args.sent) # {}
    /\ \E k \in 1..Len(result.value) : ConjArc(doc, result.value[k])
    /\ NonVerbDependents(doc, args.verb, args.sent) \ Elems(result.value) # {}

\* C10: on return from get_subjects_of_verb and get_objects_of_verb every right
\* dependent labeled conj of every token of the result, the tokens added by the
\* expansion included, is in the result; and the expansion, once started, returns.
C10_ExpansionClosedAndTerminates ==
    /\ [](pc = "done" =>
            \A k \in 1..Len(result.value) :
                \A c \in Indexes(doc) :
                    (doc.toks[c].head = result.value[k] /\ ConjArc(doc, c))
                        => c \in Elems(result.value))
    /\ [](pc = "expanding" => <>(pc = "done"))

\* a token added by the expansion has a conjunct of its own in the result
C10_Witness ==
    /\ pc = "done"
    /\ \E j, k \in 1..Len(result.value) :
          /\ ConjArc(doc, result.value[j])
          /\ ConjArc(doc, result.value[k])
          /\ doc.toks[result.value[k]].head = result.value[j]

(***************************************************************************)
(* get_span_for_compound_noun and get_span_for_verb_auxiliaries.           *)
(***************************************************************************)
RECURSIVE SeqSum(_)
SeqSum(s) == IF s = <<>> THEN 0 ELSE Head(s) + SeqSum(Tail(s))

\* sum(1 for _ in items)
CountOf(items) == SeqSum([k \in 1..Len(items) |-> 1])

\* mutant: every dependent labeled compound is counted, wherever it stands
get_span_for_compound_noun_filter(d, noun) ==
    LET isCompound == [x \in Indexes(d) |-> d.toks[x].dep = "compound"]
        max_i == noun + CountOf(SelectSeq(rights(d, noun), LAMBDA x : isCompound[x]))
        min_i == noun - CountOf(SelectSeq(Reversed(lefts(d, noun)), LAMBDA x : isCompound[x]))
    IN  Return(<<min_i, max_i>>)

get_span_for_compound_noun(d, noun) ==
    LET isCompound == [x \in Indexes(d) |-> d.toks[x].dep = "compound"]
        max_i == noun + CountOf(takewhile(isCompound, rights(d, noun)))
        min_i == noun - CountOf(takewhile(isCompound, Reversed(lefts(d, noun))))
    IN  Return(<<min_i, max_i>>)

Max2(a, b) == IF a >= b THEN a ELSE b
Min2(a, b) == IF a <= b THEN a ELSE b

\* spaCy's normalize_slice: the bounds of [start:stop] in a sequence of length
\* items, a negative bound counting from the end
normalize_slice(length, start, stop) ==
    LET from == Min2(length, Max2(0, IF start < 0 THEN start + length ELSE start))
        to == Min2(length, Max2(from, IF stop < 0 THEN stop + length ELSE stop))
    IN  <<from, to>>

\* span[start:stop]
SpanSlice(span, start, stop) ==
    LET bounds == normalize_slice(span.end - span.start, start, stop)
    IN  [start |-> span.start + bounds[1], end |-> span.start + bounds[2]]

\* span.text, the tokens of the span being separated by one space
SpanText(d, span) == Join(<<" ">>, [k \in 1..Len(SpanTokens(span)) |-> d.toks[SpanTokens(span)[k]].text])

\* span.rights: for token in span: for right in token.rights:
\*                  if right.i >= span.end: yield right
RECURSIVE RightsBeyond(_, _, _)
RightsBeyond(d, toks, end) ==
    IF toks = <<>> THEN <<>>
    ELSE SelectSeq(rights(d, Head(toks)), LAMBDA right : right >= end)
            \o RightsBeyond(d, Tail(toks), end)

SpanRights(d, span) == RightsBeyond(d, SpanTokens(span), span.end)

\* mutant: the sentence is sliced with document indexes
get_span_for_verb_auxiliaries_doc_indexes(d, verb_tok, start_i, sent) ==
    LET isAux == [x \in Indexes(d) |-> d.toks[x].dep \in AUX_DEPS]
        min_i == verb_tok - CountOf(takewhile(isAux, Reversed(lefts(d, verb_tok))))
        max_i == verb_tok + CountOf(takewhile(isAux, rights(d, verb_tok)))
        verb == SpanSlice(sent, min_i, max_i + 1)
        more == SelectSeq(SpanRights(d, verb),
                          LAMBDA tok : \/ d.toks[tok].dep = prep
                                       \/ d.toks[tok].dep = agent
                                       \/ d.toks[tok].dep = xcomp)
    IN  Return(<<[text |-> SpanText(d, verb), token |-> verb]>>
               \o [k \in 1..Len(more) |->
                     [text |-> SpanText(d, verb) \o <<" ">> \o d.toks[more[k]].text,
                      token |-> more[k]]])

\* verb names the token first and, from line 194 on, the span around it
get_span_for_verb_auxiliaries(d, verb_tok, start_i, sent) ==
    LET isAux == [x \in Indexes(d) |-> d.toks[x].dep \in AUX_DEPS]
        min_i == verb_tok - CountOf(takewhile(isAux, Reversed(lefts(d, verb_tok))))
        max_i == verb_tok + CountOf(takewhile(isAux, rights(d, verb_tok)))
        verb == SpanSlice(sent, min_i - start_i, max_i - start_i + 1)
        more == SelectSeq(SpanRights(d, verb),
                          LAMBDA tok : \/ d.toks[tok].dep = prep
                                       \/ d.toks[tok].dep = agent
                                       \/ d.toks[tok].dep = xcomp)
    IN  Return(<<[text |-> SpanText(d, verb), token |-> verb]>>
               \o [k \in 1..Len(more) |->
                     [text |-> SpanText(d, verb) \o <<" ">> \o d.toks[more[k]].text,
                      token |-> more[k]]])

\* a tagged and parsed document: start one-token sentences, then the sentence with
\* heads h and labels dp
OffsetDoc(start, h, dp) ==
    [is_tagged |-> TRUE, is_parsed |-> TRUE,
     toks |-> [t \in 0..(start + Cardinality(DOMAIN h) - 1) |->
                 IF t < start THEN Token(NOUN, "ROOT", t, Orth(t), Orth(t))
                 ELSE Token(NOUN,
                            IF h[t - start] = t - start THEN "ROOT" ELSE dp[t - start],
                            start + h[t - start], Orth(t), Orth(t))]]

\* the document indexes at which the sentence may start
Starts == {0, 1}

\* A call of get_span_for_compound_noun: a sentence of up to MaxTokens tokens, one
\* of them as the noun, the labels of the tokens of Labeled drawn.
InitCompound ==
    /\ Idle
    /\ op = "get_span_for_compound_noun"
    /\ \E h \in TreesUpTo :
         \E noun \in DOMAIN h :
            \E dp \in [Labeled(h, noun) -> {"compound", "amod"}] :
                /\ doc = OffsetDoc(0, h, Over(DOMAIN h, Labeled(h, noun), dp, "det"))
                /\ args = [noun |-> noun]

\* A call of get_span_for_verb_auxiliaries: the sentence starts at start, sent is
\* the sentence and start_i its start; the labels are those of an active clause
\* (aux, neg, xcomp, dobj) or of a passive one (auxpass, agent, prep).
AuxiliariesCall(Labels) ==
    /\ Idle
    /\ op = "get_span_for_verb_auxiliaries"
    /\ \E h \in TreesUpTo, start \in Starts :
         \E verb \in DOMAIN h :
            \E dp \in [Labeled(h, verb) -> Labels] :
                /\ doc = OffsetDoc(start, h, Over(DOMAIN h, Labeled(h, verb), dp, "det"))
                /\ args = [verb |-> start + verb,
                           start_i |-> start,
                           sent |-> [start |-> start,
                                     end |-> start + Cardinality(DOMAIN h)]]

InitAuxiliaries ==
    \/ AuxiliariesCall({"aux", "neg", xcomp, dobj})
    \/ AuxiliariesCall({"auxpass", agent, prep})

InitSpan == InitCompound \/ InitAuxiliaries

GetSpanForCompoundNoun ==
    /\ pc = "call"
    /\ op = "get_span_for_compound_noun"
    /\ result' = get_span_for_compound_noun(doc, args.noun)
    /\ pc' = "done"
    /\ UNCHANGED <<op, doc, args, subjs, cursor, attempted, merged, log>>

GetSpanForVerbAuxiliaries ==
    /\ pc = "call"
    /\ op = "get_span_for_verb_auxiliaries"
    /\ result' = get_span_for_verb_auxiliaries(doc, args.verb, args.start_i, args.sent)
    /\ pc' = "done"
    /\ UNCHANGED <<op, doc, args, subjs, cursor, attempted, merged, log>>

NextSpan == GetSpanForCompoundNoun \/ GetSpanForVerbAuxiliaries

SpecSpan == InitSpan /\ [][NextSpan]_vars

(***************************************************************************)
(* Contiguous dependents, stated on the tree.                              *)
(***************************************************************************)
LeftDependents(d, t) == {c \in Indexes(d) : d.toks[c].head = t /\ c < t}
RightDependents(d, t) == {c \in Indexes(d) : d.toks[c].head = t /\ c > t}

\* the left dependents of t with a label of Labels that no left dependent with
\* another label separates from t, and the same on the right
LeftRun(d, t, Labels) ==
    {c \in LeftDependents(d, t) :
        \A u \in LeftDependents(d, t) : u >= c => d.toks[u].dep \in Labels}
RightRun(d, t, Labels) ==
    {c \in RightDependents(d, t) :
        \A u \in RightDependents(d, t) : u <= c => d.toks[u].dep \in Labels}

CompoundDone == pc = "done" /\ op = "get_span_for_compound_noun"
AuxiliariesDone == pc = "done" /\ op = "get_span_for_verb_auxiliaries"

\* C4: get_span_for_compound_noun(noun) returns (noun.i - L, noun.i + R), L and R
\* counting the dependents labeled compound on each side from the nearest outward
\* up to the first one with another label; two preceding compound dependents and
\* no following one give (noun.i - 2, noun.i); and min <= noun.i <= max.
C4_CompoundSpan ==
    CompoundDone =>
        /\ result = Return(<<args.noun - Cardinality(LeftRun(doc, args.noun, {"compound"})),
                             args.noun + Cardinality(RightRun(doc, args.noun, {"compound"}))>>)
        /\ result.value[1] <= args.noun
        /\ args.noun <= result.value[2]
        /\ ( /\ Cardinality(LeftDependents(doc, args.noun)) = 2
             /\ \A c \in LeftDependents(doc, args.noun) : doc.toks[c].dep = "compound"
             /\ \A c \in RightDependents(doc, args.noun) : doc.toks[c].dep # "compound" )
           => result.value = <<args.noun - 2, args.noun>>

\* the walk stops at a dependent that is not a compound and leaves out a compound
\* beyond it
C4_Witness ==
    /\ CompoundDone
    /\ result.value[1] = args.noun - 1
    /\ \E c, u \in LeftDependents(doc, args.noun) :
          /\ c < u
          /\ doc.toks[c].dep = "compound"
          /\ doc.toks[u].dep # "compound"

AuxSpan(d, verb) ==
    [start |-> verb - Cardinality(LeftRun(d, verb, AUX_DEPS)),
     end |-> verb + Cardinality(RightRun(d, verb, AUX_DEPS)) + 1]

\* the dependents to the right of the span, labeled prep, agent or xcomp, of a
\* token of the span
TrailingDependents(d, span) ==
    {t \in Indexes(d) : /\ t >= span.end
                        /\ d.toks[t].head \in span.start..(span.end - 1)
                        /\ d.toks[t].dep \in {prep, agent, xcomp}}

\* C6: with start_i the index of the first token of sent, the list returned by
\* get_span_for_verb_auxiliaries starts with the span verb.i - L .. verb.i + R and
\* its text, and goes on with one entry for each right dependent of that span
\* labeled prep, agent or xcomp, in the order in which span.rights yields them
\* (token of the span by token, from the first, and for each its right dependents
\* from left to right), whose text is the text of the span, a space and the
\* surface form of the dependent.
C6_VerbAuxiliaries ==
    AuxiliariesDone =>
        /\ result.kind = "return"
        /\ Len(result.value) >= 1
        /\ result.value[1].token = AuxSpan(doc, args.verb)
        /\ result.value[1].text = SpanText(doc, AuxSpan(doc, args.verb))
        /\ Len(result.value) = 1 + Cardinality(TrailingDependents(doc, AuxSpan(doc, args.verb)))
        /\ \A k \in 2..Len(result.value) :
              /\ result.value[k].token \in TrailingDependents(doc, AuxSpan(doc, args.verb))
              /\ result.value[k].text
                   = result.value[1].text \o <<" ">> \o doc.toks[result.value[k].token].text
        /\ \A j, k \in 2..Len(result.value) :
              j < k =>
                \/ doc.toks[result.value[j].token].head < doc.toks[result.value[k].token].head
                \/ /\ doc.toks[result.value[j].token].head = doc.toks[result.value[k].token].head
                   /\ result.value[j].token < result.value[k].token

\* the sentence does not start the document, the span holds an auxiliary beside
\* the verb, and two tokens of the span have a trailing dependent each, an agent
\* and a preposition, the dependent of the earlier token standing further right
C6_Witness ==
    /\ AuxiliariesDone
    /\ args.start_i > 0
    /\ result.value[1].token.end - result.value[1].token.start >= 2
    /\ Len(result.value) = 3
    /\ doc.toks[result.value[2].token].head < doc.toks[result.value[3].token].head
    /\ result.value[2].token > result.value[3].token
    /\ {doc.toks[result.value[2].token].dep, doc.toks[result.value[3].token].dep}
          = {agent, prep}

(***************************************************************************)
(* is_plural_noun, is_negated_verb, preserve_case and normalized_str.      *)
(***************************************************************************)
\* mutant: the check of the document is missing
is_plural_noun_unchecked(d, token) ==
    Return(d.toks[token].pos = NOUN /\ d.toks[token].lemma # d.toks[token].lower)

\* mutant: the lemma is compared with the text as written
is_plural_noun_text(d, token) ==
    IF d.is_tagged = FALSE THEN Raise("ValueError")
    ELSE Return(d.toks[token].pos = NOUN /\ d.toks[token].lemma # d.toks[token].text)

is_plural_noun(d, token) ==
    IF d.is_tagged = FALSE THEN Raise("ValueError")
    ELSE Return(d.toks[token].pos = NOUN /\ d.toks[token].lemma # d.toks[token].lower)

\* mutant: only the right dependents are searched
is_negated_verb_rights(d, token) ==
    IF d.is_parsed = FALSE THEN Raise("ValueError")
    ELSE Return(/\ d.toks[token].pos = VERB
                /\ \E k \in 1..Len(rights(d, token)) :
                      d.toks[rights(d, token)[k]].dep = "neg")

is_negated_verb(d, token) ==
    IF d.is_parsed = FALSE THEN Raise("ValueError")
    ELSE Return(/\ d.toks[token].pos = VERB
                /\ \E k \in 1..Len(children(d, token)) :
                      d.toks[children(d, token)[k]].dep = "neg")

preserve_case(d, token) ==
    IF d.is_tagged = FALSE THEN Raise("ValueError")
    ELSE Return(d.toks[token].pos = PROPN \/ is_acronym(d.toks[token].text))

\* subtok.text if preserve_case(subtok) else subtok.lemma_, for each subtok in
\* turn; an exception of preserve_case ends the walk
RECURSIVE NormalizedParts(_, _)
NormalizedParts(d, toks) ==
    IF toks = <<>> THEN Return(<<>>)
    ELSE IF preserve_case(d, Head(toks)).kind = "raise" THEN preserve_case(d, Head(toks))
    ELSE IF NormalizedParts(d, Tail(toks)).kind = "raise" THEN NormalizedParts(d, Tail(toks))
    ELSE Return(<<IF preserve_case(d, Head(toks)).value
                  THEN d.toks[Head(toks)].text
                  ELSE d.toks[Head(toks)].lemma>>
                \o NormalizedParts(d, Tail(toks)).value)

\* mutant: the parts of a span are joined with nothing between them
normalized_str_unspaced(d, x) ==
    IF x.kind = "Token" THEN
        IF preserve_case(d, x.i).kind = "raise" THEN preserve_case(d, x.i)
        ELSE Return(IF preserve_case(d, x.i).value
                    THEN d.toks[x.i].text ELSE d.toks[x.i].lemma)
    ELSE IF x.kind = "Span" THEN
        IF NormalizedParts(d, SpanTokens(x)).kind = "raise"
        THEN NormalizedParts(d, SpanTokens(x))
        ELSE Return(Join(<<>>, NormalizedParts(d, SpanTokens(x)).value))
    ELSE Raise("TypeError")

\* x is [kind |-> "Token", i], [kind |-> "Span", start, end] or of another type
normalized_str(d, x) ==
    IF x.kind = "Token" THEN
        IF preserve_case(d, x.i).kind = "raise" THEN preserve_case(d, x.i)
        ELSE Return(IF preserve_case(d, x.i).value
                    THEN d.toks[x.i].text ELSE d.toks[x.i].lemma)
    ELSE IF x.kind = "Span" THEN
        IF NormalizedParts(d, SpanTokens(x)).kind = "raise"
        THEN NormalizedParts(d, SpanTokens(x))
        ELSE Return(Join(<<" ">>, NormalizedParts(d, SpanTokens(x)).value))
    ELSE Raise("TypeError")

\* the texts and lemmas drawn: cats, Cat, US, cat; cat, us
Texts == {<<"c", "a", "t", "s">>, <<"C", "a", "t">>, <<"U", "S">>, <<"c", "a", "t">>}
Lemmas == {<<"c", "a", "t">>, <<"u", "s">>}

\* a document that was not parsed: every token is its own head
TextDoc(tagged, fields) ==
    [is_tagged |-> tagged, is_parsed |-> FALSE,
     toks |-> [t \in DOMAIN fields |->
                 Token(fields[t][1], "", t, fields[t][2], fields[t][3])]]

\* what normalized_str may be given in a document of n tokens
Normalizable(n) ==
    {[kind |-> "Token", i |-> t] : t \in 0..(n - 1)}
        \cup {[kind |-> "Span", start |-> s, end |-> e] : s \in 0..n, e \in 0..n}
        \cup {[kind |-> "str"]}

InitTexts ==
    /\ Idle
    /\ \E n \in 1..MaxSpanLen :
         \E fields \in [0..(n - 1) -> {NOUN, PROPN, VERB} \X Texts \X Lemmas],
            tagged \in BOOLEAN :
            /\ doc = TextDoc(tagged, fields)
            /\ \/ /\ op \in {"is_plural_noun", "preserve_case"}
                  /\ \E t \in 0..(n - 1) : args = [token |-> t]
               \/ /\ op = "normalized_str"
                  /\ \E x \in Normalizable(n) :
                        /\ x.kind = "Span" => x.start <= x.end
                        /\ args = [token |-> x]

InitNegated ==
    /\ Idle
    /\ op = "is_negated_verb"
    /\ \E h \in TreesUpTo :
         \E dp \in [NonRoot(h) -> {"neg", "aux"}], token \in DOMAIN h,
            pos \in {VERB, NOUN}, parsed \in BOOLEAN :
            /\ doc = [ParsedDoc(h, Over(DOMAIN h, NonRoot(h), dp, "ROOT"),
                                [t \in DOMAIN h |-> IF t = token THEN pos ELSE NOUN])
                        EXCEPT !.is_parsed = parsed]
            /\ args = [token |-> token]

InitTok == InitTexts \/ InitNegated

IsPluralNoun ==
    /\ pc = "call"
    /\ op = "is_plural_noun"
    /\ result' = is_plural_noun(doc, args.token)
    /\ pc' = "done"
    /\ UNCHANGED <<op, doc, args, subjs, cursor, attempted, merged, log>>

IsNegatedVerb ==
    /\ pc = "call"
    /\ op = "is_negated_verb"
    /\ result' = is_negated_verb(doc, args.token)
    /\ pc' = "done"
    /\ UNCHANGED <<op, doc, args, subjs, cursor, attempted, merged, log>>

PreserveCase ==
    /\ pc = "call"
    /\ op = "preserve_case"
    /\ result' = preserve_case(doc, args.token)
    /\ pc' = "done"
    /\ UNCHANGED <<op, doc, args, subjs, cursor, attempted, merged, log>>

NormalizedStr ==
    /\ pc = "call"
    /\ op = "normalized_str"
    /\ result' = normalized_str(doc, args.token)
    /\ pc' = "done"
    /\ UNCHANGED <<op, doc, args, subjs, cursor, attempted, merged, log>>

NextTok == IsPluralNoun \/ IsNegatedVerb \/ PreserveCase \/ NormalizedStr

SpecTok == InitTok /\ [][NextTok]_vars

(***************************************************************************)
(* The claims on the token predicates.                                     *)
(***************************************************************************)
Done(name) == pc = "done" /\ op = name

\* C1: for a token of a document that is not tagged, is_plural_noun and
\* preserve_case raise ValueError (the ValidationError of the specification), and
\* for a token of a document that is not parsed is_negated_verb does; whatever the
\* part of speech, lemma, text and children of the token, no boolean is returned.
C1_MissingAnnotationRaises ==
    /\ (Done("is_plural_noun") \/ Done("preserve_case")) /\ ~doc.is_tagged
          => result = Raise("ValueError")
    /\ Done("is_negated_verb") /\ ~doc.is_parsed
          => result = Raise("ValueError")

\* a plural noun of a document that is not tagged
C1_Witness ==
    /\ Done("is_plural_noun")
    /\ ~doc.is_tagged
    /\ doc.toks[args.token].pos = NOUN
    /\ doc.toks[args.token].lemma # doc.toks[args.token].lower

\* C8: for a token of a tagged document is_plural_noun returns true if and only if
\* the token is a NOUN and its lemma differs from its lowercase form.
C8_PluralNoun ==
    Done("is_plural_noun") /\ doc.is_tagged =>
        /\ result.kind = "return"
        /\ result.value \in BOOLEAN
        /\ result.value <=> /\ doc.toks[args.token].pos = NOUN
                            /\ doc.toks[args.token].lemma # Lower(doc.toks[args.token].text)

\* a token that is not a noun and whose lemma differs from its lowercase form
C8_Witness ==
    /\ Done("is_plural_noun")
    /\ doc.is_tagged
    /\ doc.toks[args.token].pos # NOUN
    /\ doc.toks[args.token].lemma # Lower(doc.toks[args.token].text)
    /\ result = Return(FALSE)

\* C9: for a token of a parsed document is_negated_verb returns true if and only
\* if the token is a VERB and one of its children is labeled neg.
C9_NegatedVerb ==
    Done("is_negated_verb") /\ doc.is_parsed =>
        /\ result.kind = "return"
        /\ result.value \in BOOLEAN
        /\ result.value <=> /\ doc.toks[args.token].pos = VERB
                            /\ \E c \in Indexes(doc) : /\ c # args.token
                                                       /\ doc.toks[c].head = args.token
                                                       /\ doc.toks[c].dep = "neg"

\* a token of a parsed document that is not a verb and has a child labeled neg
C9_Witness ==
    /\ Done("is_negated_verb")
    /\ doc.is_parsed
    /\ doc.toks[args.token].pos # VERB
    /\ \E c \in Indexes(doc) : /\ c # args.token
                               /\ doc.toks[c].head = args.token
                               /\ doc.toks[c].dep = "neg"
    /\ result = Return(FALSE)

\* the normalized text of one token of a tagged document
NormalizedToken(d, t) ==
    IF d.toks[t].pos = PROPN \/ is_acronym(d.toks[t].text)
    THEN d.toks[t].text
    ELSE d.toks[t].lemma

\* C5 as stated: normalized_str of a token is its text when it is a proper noun
\* or an acronym and its lemma otherwise; normalized_str of a span is the
\* single-space join, in order, of normalized_str of its tokens; another input
\* raises TypeError.
C5_AsStated ==
    Done("normalized_str") =>
        /\ args.token.kind = "Token"
              => result = Return(NormalizedToken(doc, args.token.i))
        /\ args.token.kind = "Span"
              => result = Return(Join(<<" ">>,
                            [k \in 1..Len(SpanTokens(args.token)) |->
                                NormalizedToken(doc, SpanTokens(args.token)[k])]))
        /\ args.token.kind \notin {"Token", "Span"} => result = Raise("TypeError")

\* C5 amended: the above for the tokens and spans of a tagged document, the span
\* being the join of what normalized_str returns for each of its tokens; in a
\* document that is not tagged a token and a span that is not empty raise
\* ValueError, and the empty span gives the empty string.
C5_NormalizedStr ==
    Done("normalized_str") =>
        /\ (args.token.kind = "Token" /\ doc.is_tagged)
              => result = Return(NormalizedToken(doc, args.token.i))
        /\ (args.token.kind = "Span" /\ doc.is_tagged)
              => result = Return(Join(<<" ">>,
                            [k \in 1..Len(SpanTokens(args.token)) |->
                                normalized_str(doc, [kind |-> "Token",
                                                     i |-> SpanTokens(args.token)[k]]).value]))
        /\ (args.token.kind = "Token" /\ ~doc.is_tagged)
              => result = Raise("ValueError")
        /\ (args.token.kind = "Span" /\ ~doc.is_tagged)
              => result = IF args.token.start = args.token.end
                          THEN Return(<<>>) ELSE Raise("ValueError")
        /\ args.token.kind \notin {"Token", "Span"} => result = Raise("TypeError")

\* a span of a tagged document with a token kept as written and a token replaced
\* by its lemma
C5_Witness ==
    /\ Done("normalized_str")
    /\ doc.is_tagged
    /\ args.token.kind = "Span"
    /\ \E s, t \in args.token.start..(args.token.end - 1) :
          /\ doc.toks[s].text # doc.toks[s].lemma
          /\ doc.toks[t].text # doc.toks[t].lemma
          /\ NormalizedToken(doc, s) = doc.toks[s].text
          /\ NormalizedToken(doc, t) = doc.toks[t].lemma

(***************************************************************************)
(* merge_spans.  span.merge is spaCy's: what the merge of each span does   *)
(* (it merges the span, or raises) is drawn with the spans.                *)
(***************************************************************************)
\* what span.merge(span.root.tag_, span.text, span.root.ent_type_) may do
MergeOutcomes == {"merged", "IndexError", "ValueError"}

RECURSIVE SeqsUpTo(_, _)
SeqsUpTo(S, n) ==
    IF n = 0 THEN {<<>>}
    ELSE SeqsUpTo(S, n - 1)
            \cup {Append(s, x) : s \in {q \in SeqsUpTo(S, n - 1) : Len(q) = n - 1}, x \in S}

InitMerge ==
    /\ Idle
    /\ op = "merge_spans"
    /\ doc = [is_tagged |-> TRUE, is_parsed |-> TRUE, toks |-> <<>>]
    /\ \E spans \in SeqsUpTo(MergeOutcomes, MaxSpans) : args = [spans |-> spans]

MergeSpans ==
    /\ pc = "call"
    /\ op = "merge_spans"
    /\ cursor' = 1
    /\ pc' = "merging"
    /\ UNCHANGED <<op, doc, args, result, subjs, attempted, merged, log>>

\* mutant: no exception is caught
MergeStepUncaught ==
    /\ pc = "merging"
    /\ cursor <= Len(args.spans)
    /\ attempted' = Append(attempted, cursor)
    /\ IF args.spans[cursor] = "merged"
       THEN /\ merged' = Append(merged, cursor)
            /\ cursor' = cursor + 1
            /\ UNCHANGED <<pc, result, log>>
       ELSE /\ result' = Raise(args.spans[cursor])
            /\ pc' = "done"
            /\ UNCHANGED <<cursor, merged, log>>
    /\ UNCHANGED <<op, doc, args, subjs>>

\* one turn of  for span in spans: try: span.merge(...) except IndexError as e:
\* logger.error(e)
MergeStep ==
    /\ pc = "merging"
    /\ cursor <= Len(args.spans)
    /\ attempted' = Append(attempted, cursor)
    /\ IF args.spans[cursor] = "merged"
       THEN /\ merged' = Append(merged, cursor)
            /\ cursor' = cursor + 1
            /\ UNCHANGED <<pc, result, log>>
       ELSE IF args.spans[cursor] = "IndexError"
       THEN /\ log' = Append(log, [span |-> cursor, exc |-> "IndexError"])
            /\ cursor' = cursor + 1
            /\ UNCHANGED <<pc, result, merged>>
       ELSE /\ result' = Raise(args.spans[cursor])
            /\ pc' = "done"
            /\ UNCHANGED <<cursor, merged, log>>
    /\ UNCHANGED <<op, doc, args, subjs>>

\* the spans are exhausted: the function returns None
MergeReturn ==
    /\ pc = "merging"
    /\ cursor > Len(args.spans)
    /\ result' = None
    /\ pc' = "done"
    /\ UNCHANGED <<op, doc, args, subjs, cursor, attempted, merged, log>>

NextMerge == MergeSpans \/ MergeStep \/ MergeReturn

SpecMerge == InitMerge /\ [][NextMerge]_vars

\* the spans whose merge raises something else than IndexError
Uncaught(spans) ==
    {k \in 1..Len(spans) : spans[k] \notin {"merged", "IndexError"}}

\* the last span merge_spans reaches
LastReached(spans) ==
    IF Uncaught(spans) = {} THEN Len(spans) ELSE Min(Uncaught(spans))

\* C2 as stated: merge_spans attempts the merge of every span, in order; a merge
\* that fails is logged and skipped, and merge_spans returns normally.
C2_AsStated ==
    Done("merge_spans") =>
        /\ attempted = [k \in 1..Len(args.spans) |-> k]
        /\ result = None
        /\ \A k \in 1..Len(args.spans) :
              args.spans[k] # "merged" => \E j \in 1..Len(log) : log[j].span = k

\* C2 amended: merge_spans attempts the spans in order; a merge that raises
\* IndexError is logged and skipped and the spans after it are attempted; a merge
\* that raises another exception ends merge_spans with that exception, the spans
\* after it not being attempted; without such a span merge_spans returns None.
C2_MergeSpans ==
    Done("merge_spans") =>
        /\ attempted = [k \in 1..LastReached(args.spans) |-> k]
        /\ merged = SelectSeq(attempted, LAMBDA k : args.spans[k] = "merged")
        /\ log = [j \in 1..Len(log) |-> [span |-> log[j].span, exc |-> "IndexError"]]
        /\ [j \in 1..Len(log) |-> log[j].span]
              = SelectSeq(attempted, LAMBDA k : args.spans[k] = "IndexError")
        /\ result = IF Uncaught(args.spans) = {} THEN None
                    ELSE Raise(args.spans[LastReached(args.spans)])

\* a span is merged after the merge of an earlier one raised IndexError
C2_Witness ==
    /\ Done("merge_spans")
    /\ result = None
    /\ \E j, k \in 1..Len(args.spans) :
          /\ j < k
          /\ args.spans[j] = "IndexError"
          /\ k \in Elems(merged)

(***************************************************************************)
(* Every function together.                                                *)
(***************************************************************************)
Init == InitTok \/ InitMerge \/ InitSubj \/ InitObj \/ InitSpan

Next ==
    \/ IsPluralNoun
    \/ IsNegatedVerb
    \/ PreserveCase
    \/ NormalizedStr
    \/ MergeSpans
    \/ MergeStep
    \/ MergeReturn
    \/ GetSubjectsOfVerb
    \/ GetObjectsOfVerb
    \/ ExpandStep
    \/ ExpandReturn
    \/ GetSpanForCompoundNoun
    \/ GetSpanForVerbAuxiliaries

Spec == Init /\ [][Next]_vars

====
